---- MODULE Spec2Model ----
(***************************************************************************)
(* Model of the poke MCP server: the header middleware of src/server.py    *)
(* and the tool operations of src/airtable.py, each handled as a sequence  *)
(* of steps separated by the HTTP requests it issues.                      *)
(*                                                                         *)
(* Conventions.  A Python string is a sequence of text fragments; the      *)
(* literal parts of an f-string are single fragments and concatenation is  *)
(* \o.  An Optional value is <<>> (None) or <<v>>.  A dict is a sequence   *)
(* of <<key, value>> pairs in insertion order.                             *)
(***************************************************************************)
EXTENDS Integers, Sequences, FiniteSets, TLC

\* ---------------------------------------------------------------- bounds
MaxList == 2
MaxRecords == 2
MaxSupplied == 2

\* ------------------------------------------------------- Python values
None == <<>>
Some(v) == <<v>>
IsNone(o) == Len(o) = 0
Val(o) == o[1]

\* Truthiness of an Optional[str] / Optional[List]: not None and not empty.
TruthySeq(o) == Len(o) > 0 /\ Len(o[1]) > 0
\* Truthiness of an Optional[int]: not None and not zero.
TruthyInt(o) == Len(o) > 0 /\ o[1] /= 0

\* "key in d" and d.get(key, default) on a dict.
HasKey(d, key) == \E i \in 1..Len(d) : d[i][1] = key
Get(d, key, default) ==
    IF HasKey(d, key)
    THEN d[CHOOSE i \in 1..Len(d) : d[i][1] = key][2]
    ELSE default
Keys(d) == [i \in 1..Len(d) |-> d[i][1]]

\* d[key] = value on a dict: replace in place, or append.
DictSet(d, key, value) ==
    IF HasKey(d, key)
    THEN [i \in 1..Len(d) |-> IF d[i][1] = key THEN <<key, value>> ELSE d[i]]
    ELSE d \o << <<key, value>> >>

\* str.lower() on one fragment, and on a string.
LowerFrag(f) ==
    CASE f = "A" -> "a"
      [] f = "B" -> "b"
      [] f = "C" -> "c"
      [] f = "F" -> "f"
      [] f = "G" -> "g"
      [] f = "M" -> "m"
      [] f = "O" -> "o"
      [] f = "P" -> "p"
      [] f = "T" -> "t"
      [] OTHER -> f
UpperFrag(f) ==
    CASE f = "a" -> "A"
      [] f = "b" -> "B"
      [] f = "c" -> "C"
      [] f = "o" -> "O"
      [] f = "p" -> "P"
      [] OTHER -> f
Lower(s) == [i \in 1..Len(s) |-> LowerFrag(s[i])]
\* str.capitalize(): first character upper-cased, the rest lower-cased.
Capitalize(s) ==
    IF Len(s) = 0 THEN s
    ELSE <<UpperFrag(s[1])>> \o Lower(SubSeq(s, 2, Len(s)))

\* sep.join(parts)
RECURSIVE Join(_, _)
Join(parts, sep) ==
    IF Len(parts) = 0 THEN <<>>
    ELSE IF Len(parts) = 1 THEN parts[1]
    ELSE parts[1] \o sep \o Join(Tail(parts), sep)

\* str(n) for an int.
Digit(d) ==
    CASE d = 0 -> "0" [] d = 1 -> "1" [] d = 2 -> "2" [] d = 3 -> "3"
      [] d = 4 -> "4" [] d = 5 -> "5" [] d = 6 -> "6" [] d = 7 -> "7"
      [] d = 8 -> "8" [] d = 9 -> "9"
RECURSIVE NatToStr(_)
NatToStr(n) ==
    IF n < 10 THEN <<Digit(n)>>
    ELSE NatToStr(n \div 10) \o <<Digit(n % 10)>>
IntToStr(n) == IF n < 0 THEN <<"-">> \o NatToStr(0 - n) ELSE NatToStr(n)

\* All sequences over S of length 0..n.
RECURSIVE SeqsUpTo(_, _)
SeqsUpTo(S, n) ==
    IF n = 0 THEN {<<>>}
    ELSE LET shorter == SeqsUpTo(S, n - 1)
         IN  shorter \cup {Append(s, x) : s \in {t \in shorter : Len(t) = n - 1}, x \in S}

\* ------------------------------------------------- steps of an operation
\* What a tool body does next: return a dict, let an exception escape, call
\* airtable_request, or call fetch_field_options.
Return(d) == [t |-> "return", d |-> d]
Raise(exc) == [t |-> "raise", exc |-> exc]
Request(token, table_id, method, endpoint, params, json_data) ==
    [t |-> "request", token |-> token, table_id |-> table_id, method |-> method,
     endpoint |-> endpoint, params |-> params, json_data |-> json_data]
Fetch(token, table_id, fields) ==
    [t |-> "fetch", token |-> token, table_id |-> table_id, fields |-> fields]

Err(msg) == << <<"error", msg>> >>

NoTokenInHeader == <<"No authentication token provided in request header.">>

\* JSON values as Python sees them after response.json().
JDict(d) == [j |-> "dict", d |-> d]
JList(l) == [j |-> "list", l |-> l]
JStr(s) == [j |-> "str", s |-> s]
JNull == [j |-> "null"]

\* ------------------------------------------------------ airtable_request
ApiRoot == <<"https://api.airtable.com/v0/">>

\* Mutant: only the table id is checked; an unset base id is formatted as
\* "None" into the URL.
airtable_request_start_tableonly(token, base_id, table_id, method, endpoint, params, json_data) ==
    IF ~TruthySeq(token)
    THEN [send |-> FALSE, value |-> JDict(Err(<<"No authentication token provided.">>))]
    ELSE IF ~TruthySeq(table_id)
    THEN [send |-> FALSE, value |-> JDict(Err(<<"Server configuration is incomplete.">>))]
    ELSE [send |-> TRUE,
          req |-> [kind |-> "records",
                   method |-> method,
                   url |-> ApiRoot \o (IF IsNone(base_id) THEN <<"None">> ELSE Val(base_id))
                           \o <<"/">> \o Val(table_id) \o endpoint,
                   headers |-> << <<"Authorization", <<"Bearer ">> \o Val(token)>>,
                                  <<"Content-Type", <<"application/json">>>> >>,
                   params |-> params,
                   json |-> json_data]]

\* Lines 19-32: the checks, then the URL and headers of the one request.
airtable_request_start(token, base_id, table_id, method, endpoint, params, json_data) ==
    IF ~TruthySeq(token)
    THEN [send |-> FALSE, value |-> JDict(Err(<<"No authentication token provided.">>))]
    ELSE IF ~TruthySeq(base_id) \/ ~TruthySeq(table_id)
    THEN [send |-> FALSE, value |-> JDict(Err(<<"Server configuration is incomplete.">>))]
    ELSE [send |-> TRUE,
          req |-> [kind |-> "records",
                   method |-> method,
                   url |-> ApiRoot \o Val(base_id) \o <<"/">> \o Val(table_id) \o endpoint,
                   headers |-> << <<"Authorization", <<"Bearer ">> \o Val(token)>>,
                                  <<"Content-Type", <<"application/json">>>> >>,
                   params |-> params,
                   json |-> json_data]]

\* Mutant: the error body is parsed without the fallback to the raw text.
airtable_request_finish_nofallback(resp) ==
    IF resp.kind = "transport"
    THEN [t |-> "value", v |-> JDict(Err(<<"Request failed: ">> \o resp.msg))]
    ELSE IF IsNone(resp.json)
    THEN [t |-> "raise", exc |-> "ValueError"]
    ELSE IF ~resp.ok
    THEN [t |-> "value",
          v |-> JDict(<< <<"error", <<"Request failed with status ">> \o IntToStr(resp.status)>>,
                         <<"detail", Val(resp.json)>> >>)]
    ELSE [t |-> "value", v |-> Val(resp.json)]

\* Lines 34-56: what the call returns for a response (or a transport failure).
\* resp.json is None when the body is not JSON; response.json() then raises a
\* JSONDecodeError, which is a RequestException in requests >= 2.27 and a plain
\* ValueError before (resp.decodeErrorCaught).
airtable_request_finish(resp) ==
    IF resp.kind = "transport"
    THEN [t |-> "value", v |-> JDict(Err(<<"Request failed: ">> \o resp.msg))]
    ELSE IF ~resp.ok
    THEN [t |-> "value",
          v |-> JDict(<< <<"error", <<"Request failed with status ">> \o IntToStr(resp.status)>>,
                         <<"detail", IF IsNone(resp.json) THEN JStr(resp.text) ELSE Val(resp.json)>> >>)]
    ELSE IF ~IsNone(resp.json)
    THEN [t |-> "value", v |-> Val(resp.json)]
    ELSE IF resp.decodeErrorCaught
    THEN [t |-> "value", v |-> JDict(Err(<<"Request failed: ">> \o <<"Expecting value">>))]
    ELSE [t |-> "raise", exc |-> "ValueError"]

\* ---------------------------------------------------- fetch_field_options
MetaUrl(base_id) == ApiRoot \o <<"meta/bases/">> \o Val(base_id) \o <<"/tables">>

\* Lines 64-69.
fetch_field_options_start(token, base_id, table_id) ==
    IF ~TruthySeq(token) \/ ~TruthySeq(base_id) \/ ~TruthySeq(table_id)
    THEN [send |-> FALSE, value |-> <<>>]
    ELSE [send |-> TRUE,
          req |-> [kind |-> "meta",
                   method |-> "GET",
                   url |-> MetaUrl(base_id),
                   headers |-> << <<"Authorization", <<"Bearer ">> \o Val(token)>> >>,
                   params |-> None,
                   json |-> None]]

\* Lines 76-82: the first field of the table with that id whose name matches
\* case-insensitively.
MatchingFields(data, table_id, field_name) ==
    LET tables == Get(data, "tables", <<>>)
    IN  { p \in UNION { {ti} \X (1..Len(Get(tables[ti], "fields", <<>>))) :
                              ti \in 1..Len(tables) } :
            LET ti == p[1]
                fi == p[2]
            IN
            /\ Get(tables[ti], "id", <<>>) = table_id
            /\ Lower(Get(Get(tables[ti], "fields", <<>>)[fi], "name", <<>>)) = Lower(field_name) }
FirstPair(S) ==
    CHOOSE p \in S : \A q \in S : p[1] < q[1] \/ (p[1] = q[1] /\ p[2] <= q[2])
OptionNames(field) ==
    LET choices == Get(Get(field, "options", <<>>), "choices", <<>>)
    IN  [i \in 1..Len(choices) |-> Get(choices[i], "name", None)]

\* Mutant: a refused request is reported in the list.
fetch_field_options_finish_reporting(resp, table_id, field_name) ==
    IF resp.kind = "transport" THEN <<>>
    ELSE IF ~resp.ok THEN << <<"unavailable">> >>
    ELSE IF IsNone(resp.json) THEN <<>>
    ELSE IF Val(resp.json).j /= "dict" THEN <<>>
    ELSE LET data == Val(resp.json).d
             hits == MatchingFields(data, table_id, field_name)
         IN  IF hits = {} THEN <<>>
             ELSE LET p == FirstPair(hits)
                  IN  OptionNames(Get(Get(data, "tables", <<>>)[p[1]], "fields", <<>>)[p[2]])

\* Lines 71-84: every failure (status, transport, body) gives the empty list.
fetch_field_options_finish(resp, table_id, field_name) ==
    IF resp.kind = "transport" THEN <<>>
    ELSE IF ~resp.ok THEN <<>>
    ELSE IF IsNone(resp.json) THEN <<>>
    ELSE IF Val(resp.json).j /= "dict" THEN <<>>
    ELSE LET data == Val(resp.json).d
             hits == MatchingFields(data, table_id, field_name)
         IN  IF hits = {} THEN <<>>
             ELSE LET p == FirstPair(hits)
                  IN  OptionNames(Get(Get(data, "tables", <<>>)[p[1]], "fields", <<>>)[p[2]])

\* ------------------------------------------------------- filter clauses
\* LOWER({type}) = LOWER('<t>')
TypeEquals(t) == <<"LOWER({type}) = LOWER('">> \o t \o <<"')">>
\* FIND('<r>', ARRAYJOIN({relationship}, ','))
RelationshipHas(r) == <<"FIND('">> \o r \o <<"', ARRAYJOIN({relationship}, ','))">>

\* filters.append(clause) under "if <cond>:"
AppendIf(cond, clause) == IF cond THEN <<clause>> ELSE <<>>

\* Mutant: one clause is wrapped in AND(...) too.
SetFilterByFormula_wrapped(params, filters) ==
    IF Len(filters) = 0 THEN params
    ELSE DictSet(params, "filterByFormula",
                 Some(<<"AND(">> \o Join(filters, <<", ">>) \o <<")">>))

\* Lines 160, 368, 483: the conditional expression binds last, so one clause is
\* sent bare and several are wrapped in AND(...); no clause, no key.
SetFilterByFormula(params, filters) ==
    IF Len(filters) = 0 THEN params
    ELSE DictSet(params, "filterByFormula",
                 Some(IF Len(filters) > 1
                      THEN <<"AND(">> \o Join(filters, <<", ">>) \o <<")">>
                      ELSE filters[1]))

\* Lines 153-157.
get_location_log_filters(a) ==
    AppendIf(TruthySeq(a.place_id), <<"FIND('">> \o Val(a.place_id) \o <<"', ARRAYJOIN({place}, ','))">>)
    \o AppendIf(TruthySeq(a.status), <<"{status} = '">> \o Val(a.status) \o <<"'">>)

\* Mutant: a single accepted value is wrapped in OR(...) too.
get_places_type_clause_wrapped(type) ==
    <<"OR(">> \o Join([i \in 1..Len(type) |-> TypeEquals(type[i])], <<", ">>) \o <<")">>

\* Lines 356-361.
get_places_type_clause(type) ==
    IF Len(type) = 1
    THEN TypeEquals(type[1])
    ELSE <<"OR(">> \o Join([i \in 1..Len(type) |-> TypeEquals(type[i])], <<", ">>) \o <<")">>

\* Lines 353-365.
get_places_filters(a) ==
    AppendIf(TruthySeq(a.name), <<"FIND(LOWER('">> \o Val(a.name) \o <<"'), LOWER({name}))">>)
    \o AppendIf(TruthySeq(a.type), get_places_type_clause(Val(a.type)))
    \o AppendIf(TruthyInt(a.rating), <<"{rating} >= ">> \o IntToStr(Val(a.rating)))
    \o AppendIf(TruthySeq(a.address), <<"FIND(LOWER('">> \o Val(a.address) \o <<"'), LOWER({address}))">>)

\* Lines 475-480.
get_contacts_relationship_clause(relationship) ==
    IF Len(relationship) = 1
    THEN RelationshipHas(relationship[1])
    ELSE <<"OR(">>
         \o Join([i \in 1..Len(relationship) |-> RelationshipHas(relationship[i])],
                 <<", ">>)
         \o <<")">>

\* Mutant: relationship is appended before company.
get_contacts_filters_swapped(a) ==
    AppendIf(TruthySeq(a.name), <<"FIND(LOWER('">> \o Val(a.name) \o <<"'), LOWER({name}))">>)
    \o AppendIf(TruthySeq(a.nickname), <<"FIND(LOWER('">> \o Val(a.nickname) \o <<"'), LOWER({nickname}))">>)
    \o AppendIf(TruthySeq(a.city), <<"FIND(LOWER('">> \o Val(a.city) \o <<"'), LOWER({city}))">>)
    \o AppendIf(TruthySeq(a.sex), <<"LOWER({sex}) = '">> \o Lower(Val(a.sex)) \o <<"'">>)
    \o AppendIf(TruthySeq(a.relationship), get_contacts_relationship_clause(Val(a.relationship)))
    \o AppendIf(TruthySeq(a.company), <<"FIND(LOWER('">> \o Val(a.company) \o <<"'), LOWER({company}))">>)

\* Lines 464-480: company is appended before relationship.
get_contacts_filters(a) ==
    AppendIf(TruthySeq(a.name), <<"FIND(LOWER('">> \o Val(a.name) \o <<"'), LOWER({name}))">>)
    \o AppendIf(TruthySeq(a.nickname), <<"FIND(LOWER('">> \o Val(a.nickname) \o <<"'), LOWER({nickname}))">>)
    \o AppendIf(TruthySeq(a.city), <<"FIND(LOWER('">> \o Val(a.city) \o <<"'), LOWER({city}))">>)
    \o AppendIf(TruthySeq(a.sex), <<"LOWER({sex}) = '">> \o Lower(Val(a.sex)) \o <<"'">>)
    \o AppendIf(TruthySeq(a.company), <<"FIND(LOWER('">> \o Val(a.company) \o <<"'), LOWER({company}))">>)
    \o AppendIf(TruthySeq(a.relationship), get_contacts_relationship_clause(Val(a.relationship)))

\* ------------------------------------------------------------ field maps
\* JSON values of a field map.
FStr(s) == [f |-> "str", s |-> s]
FList(l) == [f |-> "list", l |-> l]
FInt(n) == [f |-> "int", n |-> n]
FBool(b) == [f |-> "bool", b |-> b]

\* fields[key] = value under "if <param> is not None:"
PutIf(o, key, value) == IF IsNone(o) THEN <<>> ELSE << <<key, value>> >>
LowerAll(l) == [i \in 1..Len(l) |-> Lower(l[i])]

\* Lines 196-200.
update_location_log_fields(a) ==
    PutIf(a.place_id, "place", FList(<<Val(a.place_id)>>))
    \o PutIf(a.transit, "transit", FBool(Val(a.transit)))

\* Lines 239-248.
create_place_fields(a) ==
    << <<"name", FStr(Val(a.name))>>,
       <<"address", FStr(Val(a.address))>>,
       <<"type", FList(LowerAll(Val(a.type)))>> >>
    \o PutIf(a.rating, "rating", FInt(Val(a.rating)))
    \o PutIf(a.notes, "notes", FStr(Val(a.notes)))

\* Lines 287-297.
update_place_fields(a) ==
    PutIf(a.name, "name", FStr(Val(a.name)))
    \o PutIf(a.address, "address", FStr(Val(a.address)))
    \o PutIf(a.type, "type", FList(LowerAll(Val(a.type))))
    \o PutIf(a.rating, "rating", FInt(Val(a.rating)))
    \o PutIf(a.notes, "notes", FStr(Val(a.notes)))

\* Mutant: the city is sent as given.
contact_optional_fields_rawcity(a) ==
    PutIf(a.nickname, "nickname", FStr(Val(a.nickname)))
    \o PutIf(a.birthday, "birthday", FStr(Val(a.birthday)))
    \o PutIf(a.city, "city", FStr(Val(a.city)))
    \o PutIf(a.sex, "sex", FStr(Lower(Val(a.sex))))
    \o PutIf(a.relationship, "relationship", FList(LowerAll(Val(a.relationship))))
    \o PutIf(a.phone, "phone", FStr(Val(a.phone)))
    \o PutIf(a.email, "email", FStr(Val(a.email)))
    \o PutIf(a.company, "company", FStr(Val(a.company)))
    \o PutIf(a.notes, "notes", FStr(Val(a.notes)))
    \o PutIf(a.met_date, "met_date", FStr(Val(a.met_date)))

\* Lines 527-546 and 596-615: the optional fields of a contact, nickname on.
contact_optional_fields(a) ==
    PutIf(a.nickname, "nickname", FStr(Val(a.nickname)))
    \o PutIf(a.birthday, "birthday", FStr(Val(a.birthday)))
    \o PutIf(a.city, "city", FStr(Lower(Val(a.city))))
    \o PutIf(a.sex, "sex", FStr(Lower(Val(a.sex))))
    \o PutIf(a.relationship, "relationship", FList(LowerAll(Val(a.relationship))))
    \o PutIf(a.phone, "phone", FStr(Val(a.phone)))
    \o PutIf(a.email, "email", FStr(Val(a.email)))
    \o PutIf(a.company, "company", FStr(Val(a.company)))
    \o PutIf(a.notes, "notes", FStr(Val(a.notes)))
    \o PutIf(a.met_date, "met_date", FStr(Val(a.met_date)))

\* Lines 525-546.
create_contact_fields(a) ==
    << <<"name", FStr(Val(a.name))>> >> \o contact_optional_fields(a)

\* Lines 593-615.
update_contact_fields(a) ==
    PutIf(a.name, "name", FStr(Val(a.name))) \o contact_optional_fields(a)

\* json_data={"fields": fields, "typecast": True}
FieldsTypecast(fields) == Some(<< <<"fields", fields>>, <<"typecast", TRUE>> >>)

\* ------------------------------------------- tool bodies, up to the request
\* Each takes the token read from the context state, the process environment
\* and the call's arguments, and gives the tool's first step.
RecencySort ==
    << <<"sort[0][field]", Some(<<"timestamp">>)>>,
       <<"sort[0][direction]", Some(<<"desc">>)>> >>

\* Lines 95-109.
get_messages_start(token, env, a) ==
    IF ~TruthySeq(token) THEN Return(Err(NoTokenInHeader))
    ELSE IF ~TruthySeq(env.messages) THEN Return(Err(<<"Messages table is not configured.">>))
    ELSE Request(token, env.messages, "GET", <<>>,
                 Some(<< <<"view", a.range>> >> \o RecencySort), None)

\* Lines 137-162.
get_location_log_start(token, env, a) ==
    IF ~TruthySeq(token) THEN Return(Err(NoTokenInHeader))
    ELSE IF ~TruthySeq(env.logs) THEN Return(Err(<<"Location log is not configured.">>))
    ELSE LET sorted == RecencySort
             limited == IF TruthyInt(a.limit)
                        THEN DictSet(sorted, "maxRecords", Some(IntToStr(Val(a.limit))))
                        ELSE sorted
         IN  Request(token, env.logs, "GET", <<>>,
                     Some(SetFilterByFormula(limited, get_location_log_filters(a))), None)

\* Lines 188-211.
update_location_log_start(token, env, a) ==
    IF ~TruthySeq(token) THEN Return(Err(NoTokenInHeader))
    ELSE IF ~TruthySeq(env.logs) THEN Return(Err(<<"Location log is not configured.">>))
    ELSE IF Len(update_location_log_fields(a)) = 0
    THEN Return(Err(<<"No fields provided to update. Provide at least place_id or transit.">>))
    ELSE Request(token, env.logs, "PATCH", <<"/">> \o Val(a.log_id), None,
                 Some(<< <<"fields", update_location_log_fields(a)>> >>))

\* Lines 231-255.
create_place_start(token, env, a) ==
    IF ~TruthySeq(token) THEN Return(Err(NoTokenInHeader))
    ELSE IF ~TruthySeq(env.places) THEN Return(Err(<<"Places table is not configured.">>))
    ELSE Request(token, env.places, "POST", <<>>, None, FieldsTypecast(create_place_fields(a)))

\* Lines 279-308.
update_place_start(token, env, a) ==
    IF ~TruthySeq(token) THEN Return(Err(NoTokenInHeader))
    ELSE IF ~TruthySeq(env.places) THEN Return(Err(<<"Places table is not configured.">>))
    ELSE IF Len(update_place_fields(a)) = 0
    THEN Return(Err(<<"No fields provided to update.">>))
    ELSE Request(token, env.places, "PATCH", <<"/">> \o Val(a.place_id), None,
                 FieldsTypecast(update_place_fields(a)))

\* Lines 342-370.
get_places_start(token, env, a) ==
    IF ~TruthySeq(token) THEN Return(Err(NoTokenInHeader))
    ELSE IF ~TruthySeq(env.places) THEN Return(Err(<<"Places table is not configured.">>))
    ELSE Request(token, env.places, "GET", <<>>,
                 Some(SetFilterByFormula(<<>>, get_places_filters(a))), None)

\* Lines 401-404 and 658-661: source_map.get(source).
SourceEnvKey(source) ==
    IF source = <<"p", "lace">> THEN Some("places")
    ELSE IF source = <<"c", "ontact">> THEN Some("contacts")
    ELSE None

UnknownSource(source) ==
    Err(<<"Unknown source '">> \o source \o <<"'. Use 'place' or 'contact'.">>)
TableNotConfigured(source) ==
    Err(<<"Table for '">> \o source \o <<"' is not configured.">>)

\* Lines 397-414.
get_parameter_options_start(token, env, a) ==
    IF ~TruthySeq(token) THEN Return(Err(NoTokenInHeader))
    ELSE IF IsNone(SourceEnvKey(Val(a.source))) THEN Return(UnknownSource(Val(a.source)))
    ELSE IF ~TruthySeq(env[Val(SourceEnvKey(Val(a.source)))])
    THEN Return(TableNotConfigured(Val(a.source)))
    ELSE Fetch(token, env[Val(SourceEnvKey(Val(a.source)))], <<Val(a.parameter)>>)

\* Lines 454-485.
get_contacts_start(token, env, a) ==
    IF ~TruthySeq(token) THEN Return(Err(NoTokenInHeader))
    ELSE IF ~TruthySeq(env.contacts) THEN Return(Err(<<"Contacts table is not configured.">>))
    ELSE Request(token, env.contacts, "GET", <<>>,
                 Some(SetFilterByFormula(<<>>, get_contacts_filters(a))), None)

\* Lines 517-553.
create_contact_start(token, env, a) ==
    IF ~TruthySeq(token) THEN Return(Err(NoTokenInHeader))
    ELSE IF ~TruthySeq(env.contacts) THEN Return(Err(<<"Contacts table is not configured.">>))
    ELSE Request(token, env.contacts, "POST", <<>>, None,
                 FieldsTypecast(create_contact_fields(a)))

\* Mutant: the table is looked up before the credential.
update_contact_start_tablefirst(token, env, a) ==
    IF ~TruthySeq(env.contacts) THEN Return(Err(<<"Contacts table is not configured.">>))
    ELSE IF ~TruthySeq(token) THEN Return(Err(NoTokenInHeader))
    ELSE IF Len(update_contact_fields(a)) = 0
    THEN Return(Err(<<"No fields provided to update.">>))
    ELSE Request(token, env.contacts, "PATCH", <<"/">> \o Val(a.contact_id), None,
                 FieldsTypecast(update_contact_fields(a)))

\* Mutant: the empty field map is sent.
update_contact_start_unchecked(token, env, a) ==
    IF ~TruthySeq(token) THEN Return(Err(NoTokenInHeader))
    ELSE IF ~TruthySeq(env.contacts) THEN Return(Err(<<"Contacts table is not configured.">>))
    ELSE Request(token, env.contacts, "PATCH", <<"/">> \o Val(a.contact_id), None,
                 FieldsTypecast(update_contact_fields(a)))

\* Lines 585-626.
update_contact_start(token, env, a) ==
    IF ~TruthySeq(token) THEN Return(Err(NoTokenInHeader))
    ELSE IF ~TruthySeq(env.contacts) THEN Return(Err(<<"Contacts table is not configured.">>))
    ELSE IF Len(update_contact_fields(a)) = 0
    THEN Return(Err(<<"No fields provided to update.">>))
    ELSE Request(token, env.contacts, "PATCH", <<"/">> \o Val(a.contact_id), None,
                 FieldsTypecast(update_contact_fields(a)))

\* Lines 654-676.
delete_entry_start(token, env, a) ==
    IF ~TruthySeq(token) THEN Return(Err(NoTokenInHeader))
    ELSE IF IsNone(SourceEnvKey(Val(a.source))) THEN Return(UnknownSource(Val(a.source)))
    ELSE IF ~TruthySeq(env[Val(SourceEnvKey(Val(a.source)))])
    THEN Return(TableNotConfigured(Val(a.source)))
    ELSE Request(token, env[Val(SourceEnvKey(Val(a.source)))], "DELETE",
                 <<"/">> \o Val(a.entry_id), None, None)

\* Lines 691-704.
get_birthdays_start(token, env, a) ==
    IF ~TruthySeq(token) THEN Return(Err(NoTokenInHeader))
    ELSE IF ~TruthySeq(env.contacts) THEN Return(Err(<<"Contacts table is not configured.">>))
    ELSE Request(token, env.contacts, "GET", <<>>,
                 Some(<< <<"view", Some(<<"birthday">>)>> >>), None)

Tools ==
    {"get_messages", "get_location_log", "update_location_log", "create_place",
     "update_place", "get_places", "get_parameter_options", "get_contacts",
     "create_contact", "update_contact", "delete_entry", "get_birthdays"}

\* server.py lines 58-105: the function registered under each tool name.
ToolStartStep(op, token, env, a) ==
    CASE op = "get_messages" -> get_messages_start(token, env, a)
      [] op = "get_location_log" -> get_location_log_start(token, env, a)
      [] op = "update_location_log" -> update_location_log_start(token, env, a)
      [] op = "create_place" -> create_place_start(token, env, a)
      [] op = "update_place" -> update_place_start(token, env, a)
      [] op = "get_places" -> get_places_start(token, env, a)
      [] op = "get_parameter_options" -> get_parameter_options_start(token, env, a)
      [] op = "get_contacts" -> get_contacts_start(token, env, a)
      [] op = "create_contact" -> create_contact_start(token, env, a)
      [] op = "update_contact" -> update_contact_start(token, env, a)
      [] op = "delete_entry" -> delete_entry_start(token, env, a)
      [] op = "get_birthdays" -> get_birthdays_start(token, env, a)

\* --------------------------------------- tool bodies, after the request
\* "error" in data, for the values response.json() can give.
ErrorIn(data) ==
    CASE data.j = "dict" -> HasKey(data.d, "error")
      [] data.j = "list" -> \E i \in 1..Len(data.l) :
                               data.l[i].j = "str" /\ data.l[i].s = <<"error">>
      [] OTHER -> FALSE

\* if "error" in data: return <errorResult>  ...  <rest>
\* None is not iterable, and a list cannot be indexed by "error".
IfError(data, errorResult, rest) ==
    IF data.j = "null" THEN Raise("TypeError")
    ELSE IF ErrorIn(data)
    THEN IF data.j = "dict" THEN Return(errorResult) ELSE Raise("TypeError")
    ELSE rest

ErrorOnly(data) == Err(Get(data.d, "error", <<>>))

\* records = data.get("records", []) ... <rest>: only a dict has .get
WithRecords(data, rest) ==
    IF data.j /= "dict" THEN Raise("AttributeError") ELSE rest
Records(data) == Get(data.d, "records", <<>>)

\* Lines 111-118.
get_messages_after(a, data) ==
    IfError(data,
            << <<"error", Get(data.d, "error", <<>>)>>, <<"range", a.range>> >>,
            WithRecords(data,
                Return(<< <<"range", a.range>>,
                          <<"messages", Records(data)>>,
                          <<"count", Len(Records(data))>> >>)))

\* Lines 164-172.
get_location_log_after(a, data) ==
    IfError(data, ErrorOnly(data),
            WithRecords(data,
                Return(<< <<"logs", Records(data)>>, <<"count", Len(Records(data))>> >>)))

\* Lines 213-219.
update_location_log_after(a, data) ==
    IfError(data, ErrorOnly(data),
            Return(<< <<"log", data>>,
                      <<"message", <<"Location log updated successfully.">>>> >>))

\* Mutant: the options of "type" are fetched twice.
place_write_after_twice(a, step, data) ==
    IfError(data, ErrorOnly(data),
            Fetch(step.token, step.table_id, << <<"type">>, <<"type">> >>))

\* Lines 257-260, 310-313: then fetch the options of "type".
place_write_after(a, step, data) ==
    IfError(data, ErrorOnly(data), Fetch(step.token, step.table_id, << <<"type">> >>))

\* Lines 262-266.
create_place_final(a, data, opts) ==
    Return(<< <<"place", data>>,
              <<"message", <<"Saved '">> \o Val(a.name) \o <<"' successfully.">>>>,
              <<"available_types", opts[1]>> >>)

\* Lines 315-319.
update_place_final(a, data, opts) ==
    Return(<< <<"place", data>>,
              <<"message", <<"Place updated successfully.">>>>,
              <<"available_types", opts[1]>> >>)

\* Lines 372-376.
get_places_after(a, step, data) ==
    IfError(data, ErrorOnly(data),
            WithRecords(data, Fetch(step.token, step.table_id, << <<"type">> >>)))

\* Mutant: the records are returned newest last.
get_places_final_reversed(a, data, opts) ==
    Return(<< <<"places", [i \in 1..Len(Records(data)) |->
                              Records(data)[Len(Records(data)) + 1 - i]]>>,
              <<"count", Len(Records(data))>>,
              <<"available_types", opts[1]>> >>)

\* Lines 378-382.
get_places_final(a, data, opts) ==
    Return(<< <<"places", Records(data)>>,
              <<"count", Len(Records(data))>>,
              <<"available_types", opts[1]>> >>)

\* Lines 487-492.
get_contacts_after(a, step, data) ==
    IfError(data, ErrorOnly(data),
            WithRecords(data,
                Fetch(step.token, step.table_id, << <<"relationship">>, <<"city">> >>)))

\* Lines 494-499.
get_contacts_final(a, data, opts) ==
    Return(<< <<"contacts", Records(data)>>,
              <<"count", Len(Records(data))>>,
              <<"available_relationships", opts[1]>>,
              <<"available_cities", opts[2]>> >>)

\* Lines 555-559, 628-632: then fetch the options of "relationship" and "city".
contact_write_after(a, step, data) ==
    IfError(data, ErrorOnly(data),
            Fetch(step.token, step.table_id, << <<"relationship">>, <<"city">> >>))

\* Lines 561-566.
create_contact_final(a, data, opts) ==
    Return(<< <<"contact", data>>,
              <<"message", <<"Contact '">> \o Val(a.name) \o <<"' saved successfully.">>>>,
              <<"available_relationships", opts[1]>>,
              <<"available_cities", opts[2]>> >>)

\* Lines 634-639.
update_contact_final(a, data, opts) ==
    Return(<< <<"contact", data>>,
              <<"message", <<"Contact updated successfully.">>>>,
              <<"available_relationships", opts[1]>>,
              <<"available_cities", opts[2]>> >>)

\* Lines 416-421.
get_parameter_options_final(a, opts) ==
    Return(<< <<"source", Val(a.source)>>,
              <<"parameter", Val(a.parameter)>>,
              <<"options", opts[1]>>,
              <<"count", Len(opts[1])>> >>)

\* Mutant: the source is not capitalized.
delete_entry_result_lower(a, data) ==
    << <<"message", Val(a.source) \o <<" deleted successfully.">>>>,
       <<"deleted_id", Get(data.d, "id", Val(a.entry_id))>> >>

\* Lines 681-684: the id comes from the response, entry_id being the default.
delete_entry_result(a, data) ==
    << <<"message", Capitalize(Val(a.source)) \o <<" deleted successfully.">>>>,
       <<"deleted_id", Get(data.d, "id", Val(a.entry_id))>> >>

\* Lines 678-684.
delete_entry_after(a, data) ==
    IfError(data, ErrorOnly(data),
            IF data.j /= "dict" THEN Raise("AttributeError")
            ELSE Return(delete_entry_result(a, data)))

\* Line 717: record.get("fields", {}).get("birthday_alert", "")
BirthdayAlert(record) == Get(Get(record, "fields", <<>>), "birthday_alert", <<>>)

\* Mutant: each bucket is filled from the last record to the first.
Bucket_backwards(records, alert) ==
    LET kept == SelectSeq(records, LAMBDA record : BirthdayAlert(record) = alert)
    IN  [i \in 1..Len(kept) |-> kept[Len(kept) + 1 - i]]

\* Lines 712-723.
Bucket(records, alert) == SelectSeq(records, LAMBDA record : BirthdayAlert(record) = alert)

\* Lines 706-729.
get_birthdays_after(a, data) ==
    IfError(data, ErrorOnly(data),
            WithRecords(data,
                Return(<< <<"today", Bucket(Records(data), <<"today">>)>>,
                          <<"this_week", Bucket(Records(data), <<"this_week">>)>>,
                          <<"this_month", Bucket(Records(data), <<"this_month">>)>> >>)))

\* The step a tool takes once airtable_request has returned data.
ToolAfterData(op, a, step, data) ==
    CASE op = "get_messages" -> get_messages_after(a, data)
      [] op = "get_location_log" -> get_location_log_after(a, data)
      [] op = "update_location_log" -> update_location_log_after(a, data)
      [] op = "create_place" -> place_write_after(a, step, data)
      [] op = "update_place" -> place_write_after(a, step, data)
      [] op = "get_places" -> get_places_after(a, step, data)
      [] op = "get_contacts" -> get_contacts_after(a, step, data)
      [] op = "create_contact" -> contact_write_after(a, step, data)
      [] op = "update_contact" -> contact_write_after(a, step, data)
      [] op = "delete_entry" -> delete_entry_after(a, data)
      [] op = "get_birthdays" -> get_birthdays_after(a, data)

\* The result a tool returns once every fetch_field_options has returned.
ToolFinal(op, a, data, opts) ==
    CASE op = "create_place" -> create_place_final(a, data, opts)
      [] op = "update_place" -> update_place_final(a, data, opts)
      [] op = "get_places" -> get_places_final(a, data, opts)
      [] op = "get_contacts" -> get_contacts_final(a, data, opts)
      [] op = "create_contact" -> create_contact_final(a, data, opts)
      [] op = "update_contact" -> update_contact_final(a, data, opts)
      [] op = "get_parameter_options" -> get_parameter_options_final(a, opts)

\* ------------------------------------------------------------- middleware
\* server.py lines 20-23: what on_message prints for a message.
PrintedLines(m) ==
    << <<"\n=== ", m.method, " ===">> >>
    \o [i \in 1..Len(m.headers) |-> <<"  ", m.headers[i][1], ": ">> \o m.headers[i][2]]
    \o << <<"========================\n">> >>

\* str.startswith("Bearer ") and str.replace("Bearer ", ""): every occurrence
\* is removed, not only the prefix.
StartsWithBearer(s) == Len(s) > 0 /\ s[1] = "Bearer "
RemoveBearer(s) == SelectSeq(s, LAMBDA f : f /= "Bearer ")

\* server.py lines 26-30: the context state after the middleware ran.
ExtractToken(m) ==
    LET auth_header == Get(m.headers, "authorization", <<>>)
    IN  IF StartsWithBearer(auth_header) /\ m.hasContext
        THEN Some(RemoveBearer(auth_header))
        ELSE None

\* ----------------------------------------------------------------- inputs
\* Process environment: AIRTABLE_BASE_ID and the four table ids, each set or
\* unset.  Explored: the base set or unset, with every table set, exactly
\* one table unset, or every table unset.
TableVars == {"messages", "logs", "places", "contacts"}
TableId(v) ==
    CASE v = "messages" -> <<"tblMessages">>
      [] v = "logs" -> <<"tblLogs">>
      [] v = "places" -> <<"tblPlaces">>
      [] v = "contacts" -> <<"tblContacts">>
EnvWith(baseSet, unset) ==
    [v \in TableVars \cup {"base"} |->
        IF v = "base" THEN (IF baseSet THEN Some(<<"appBase">>) ELSE None)
        ELSE IF v \in unset THEN None ELSE Some(TableId(v))]
Envs ==
    { EnvWith(b, u) : b \in BOOLEAN,
                      u \in {{}, TableVars} \cup { {v} : v \in TableVars } }

\* Inbound messages: the protocol method, the HTTP headers as
\* get_http_headers() gives them (lower-case names), and whether the
\* middleware context carries a fastmcp_context.
AuthValues ==
    { <<"Bearer ", "tokA">>,
      <<"Bearer ", "tok", "Bearer ", "B">>,
      <<"Bearer ">>,
      <<"Basic ", "dXNlcg==">> }
HeaderSets ==
    { << <<"user-agent", <<"poke">>>> >> }
    \cup { << <<"user-agent", <<"poke">>>>, <<"authorization", v>> >> : v \in AuthValues }
Messages ==
    { [method |-> "tools/call", headers |-> h, hasContext |-> TRUE] : h \in HeaderSets }
    \cup { [method |-> m, headers |-> h, hasContext |-> x] :
             m \in {"initialize", "tools/list"}, h \in HeaderSets, x \in BOOLEAN }

\* Tool arguments: a value for every parameter name, None when not passed.
ArgNames ==
    {"name", "nickname", "birthday", "city", "sex", "relationship", "phone", "email",
     "company", "notes", "met_date", "type", "rating", "address", "place_id", "status",
     "limit", "transit", "log_id", "contact_id", "source", "entry_id", "parameter", "range"}
NoArgs == [k \in ArgNames |-> None]

Optional(S) == {None} \cup { Some(v) : v \in S }
Quoted == <<"O", "'", "b">>
Plain == <<"A", "l">>
FilterTypes == { <<"cafe">>, <<"coworking">> }
WriteTypes == { <<"cafe">>, <<"B", "ar">> }
Relationships == { <<"F", "riend">> }
Sources == { <<"p", "lace">>, <<"c", "ontact">>, <<"o", "ther">> }

ContactOptionalNames ==
    {"nickname", "birthday", "city", "sex", "relationship", "phone", "email", "company",
     "notes", "met_date"}
ContactValue(k) ==
    CASE k = "name" -> Plain
      [] k = "nickname" -> <<"A", "ly">>
      [] k = "birthday" -> <<"1990-01-02">>
      [] k = "city" -> <<"T", "okyo">>
      [] k = "sex" -> <<"M", "an">>
      [] k = "relationship" -> << <<"F", "riend">> >>
      [] k = "phone" -> <<"555">>
      [] k = "email" -> <<"A", "@x.io">>
      [] k = "company" -> <<"A", "cme">>
      [] k = "notes" -> <<"T", "all">>
      [] k = "met_date" -> <<"2020-03-04">>
\* The contact arguments with the optional ones in S supplied.
ContactArgs(base, S) ==
    [k \in ArgNames |-> IF k \in S THEN Some(ContactValue(k)) ELSE base[k]]
FewOptional == { S \in SUBSET ContactOptionalNames : Cardinality(S) <= MaxSupplied }

ArgsFor(op) ==
    CASE op = "get_messages" ->
           { [NoArgs EXCEPT !.range = r] :
               r \in Optional({<<"today">>, <<"this week">>, <<"this month">>, <<"all">>}) }
      [] op = "get_location_log" ->
           { [NoArgs EXCEPT !.limit = l, !.place_id = p, !.status = s] :
               l \in Optional({0, 1, 10}),
               p \in Optional({<<>>, <<"recP1">>, Quoted}),
               s \in Optional({<<"ok">>, <<"warning">>}) }
      [] op = "update_location_log" ->
           { [NoArgs EXCEPT !.log_id = Some(<<"recL1">>), !.place_id = p, !.transit = t] :
               p \in Optional({<<>>, <<"recP1">>}), t \in Optional(BOOLEAN) }
      [] op = "create_place" ->
           { [NoArgs EXCEPT !.name = Some(n), !.address = Some(<<"1 Main St">>),
                            !.type = Some(t), !.rating = r, !.notes = o] :
               n \in {Plain, Quoted}, t \in SeqsUpTo(WriteTypes, MaxList),
               r \in Optional({4}), o \in Optional({<<"G", "ood wifi">>}) }
      [] op = "update_place" ->
           { [NoArgs EXCEPT !.place_id = Some(<<"recP1">>), !.name = n, !.address = d,
                            !.type = t, !.rating = r, !.notes = o] :
               n \in Optional({<<>>, Plain}), d \in Optional({<<"1 Main St">>}),
               t \in Optional(SeqsUpTo(WriteTypes, MaxList)),
               r \in Optional({0, 4}), o \in Optional({<<"G", "ood wifi">>}) }
      [] op = "get_places" ->
           { [NoArgs EXCEPT !.name = n, !.type = t, !.rating = r, !.address = d] :
               n \in Optional({<<>>, Plain, Quoted}),
               t \in Optional(SeqsUpTo(FilterTypes, MaxList)),
               r \in Optional({0, 4}),
               d \in Optional({<<>>, <<"Shibuya">>}) }
      [] op = "get_parameter_options" ->
           { [NoArgs EXCEPT !.source = Some(s), !.parameter = Some(q)] :
               s \in Sources, q \in {<<"type">>, <<"relationship">>} }
      [] op = "get_contacts" ->
           { [NoArgs EXCEPT !.name = n, !.nickname = k, !.city = c, !.sex = x,
                            !.relationship = r, !.company = o] :
               n \in Optional({<<>>, Plain, Quoted}),
               k \in Optional({<<"A", "ly">>}),
               c \in Optional({<<"T", "okyo">>}),
               x \in Optional({<<"man">>}),
               r \in Optional(SeqsUpTo(Relationships, MaxList)),
               o \in Optional({<<"A", "cme">>}) }
      [] op = "create_contact" ->
           { ContactArgs([NoArgs EXCEPT !.name = Some(Plain)], S) : S \in FewOptional }
      [] op = "update_contact" ->
           { ContactArgs([NoArgs EXCEPT !.contact_id = Some(<<"rec123">>), !.name = n], S) :
               n \in Optional({<<>>, Plain}), S \in FewOptional }
      [] op = "delete_entry" ->
           { [NoArgs EXCEPT !.source = Some(s), !.entry_id = Some(e)] :
               s \in Sources, e \in {<<"recABC">>, <<"recP1">>} }
      [] op = "get_birthdays" -> { NoArgs }

\* ------------------------------------------------- backing-store answers
Rec(id, alert) ==
    << <<"id", id>>,
       <<"fields", IF IsNone(alert) THEN <<>> ELSE << <<"birthday_alert", Val(alert)>> >> >> >>
ListedRecords == { Rec(<<"rec1">>, None), Rec(<<"rec2">>, None) }
BirthdayRecords ==
    { Rec(<<"recT">>, Some(<<"today">>)), Rec(<<"recT2">>, Some(<<"today">>)),
      Rec(<<"recW">>, Some(<<"this_week">>)),
      Rec(<<"recM">>, Some(<<"this_month">>)), Rec(<<"recL">>, Some(<<"later">>)),
      Rec(<<"recN">>, None) }

Transport == [kind |-> "transport", msg |-> <<"Connection timed out">>]
Http(ok, status, json, text, caught) ==
    [kind |-> "http", ok |-> ok, status |-> status, json |-> json, text |-> text,
     decodeErrorCaught |-> caught]

\* The record a request's endpoint addresses ("/<id>").
Addressed(step) == Tail(step.endpoint)

\* Bodies of a 2xx answer to a tool's request: a record list for GET, the
\* written record for POST and PATCH, the deleted id (or nothing) for DELETE.
OkBodies(step) ==
    CASE step.method = "GET" ->
           { << <<"records", rs>> >> :
               rs \in SeqsUpTo(IF Get(Val(step.params), "view", None) = Some(<<"birthday">>)
                               THEN BirthdayRecords ELSE ListedRecords, MaxRecords) }
           \cup { <<>> }
      [] step.method = "POST" -> { << <<"id", <<"recNEW">>>>, <<"fields", <<>>>> >> }
      [] step.method = "PATCH" -> { << <<"id", Addressed(step)>>, <<"fields", <<>>>> >> }
      [] step.method = "DELETE" ->
           { << <<"deleted", TRUE>>, <<"id", Addressed(step)>> >>, << <<"deleted", TRUE>> >> }

ErrorStatuses == {404, 500}
ErrorAnswers ==
    { Http(FALSE, st, Some(JDict(<< <<"error", <<"NOT_FOUND">>>> >>)), <<"{..}">>, TRUE) :
        st \in ErrorStatuses }
    \cup { Http(FALSE, st, None, <<"Bad Gateway">>, TRUE) : st \in ErrorStatuses }

\* Everything the store (or the network) can answer to a tool's request.
PrimaryResponses(step) ==
    { Transport }
    \cup ErrorAnswers
    \cup { Http(TRUE, 200, Some(JDict(b)), <<"{..}">>, TRUE) : b \in OkBodies(step) }
    \cup { Http(TRUE, 200, Some(JList(<<>>)), <<"[]">>, TRUE),
           Http(TRUE, 200, Some(JNull), <<"null">>, TRUE) }
    \cup { Http(TRUE, 200, None, <<"<html>">>, caught) : caught \in BOOLEAN }

\* The schema the metadata endpoint describes.
Choice(name) == << <<"name", name>> >>
Schema ==
    << <<"tables",
         << << <<"id", <<"tblPlaces">>>>,
               <<"fields",
                 << << <<"name", <<"name">>>> >>,
                    << <<"name", <<"T", "ype">>>>,
                       <<"options",
                         << <<"choices", <<Choice(<<"cafe">>), Choice(<<"bar">>)>>>> >>>> >> >>>> >>,
            << <<"id", <<"tblContacts">>>>,
               <<"fields",
                 << << <<"name", <<"relationship">>>>,
                       <<"options", << <<"choices", <<Choice(<<"friend">>)>>>> >>>> >>,
                    << <<"name", <<"city">>>> >> >>>> >> >>>> >>

MetaResponses ==
    { Transport,
      Http(FALSE, 403, None, <<"Forbidden">>, TRUE),
      Http(TRUE, 200, Some(JDict(Schema)), <<"{..}">>, TRUE) }

\* --------------------------------------------------------------- state
CallIds == {1, 2}

VARIABLES
    env,        \* os.environ: the configuration, fixed at start
    slots,      \* the calls the server handles concurrently
    pc,         \* where each call is
    msg,        \* the inbound message of each call
    printed,    \* the lines on_message printed for it
    state,      \* the call's context state "airtable_token"
    op,         \* the tool called
    args,       \* its arguments
    step,       \* the request or fetch the tool is at
    sent,       \* the HTTP requests issued so far
    received,   \* the answers to them
    data,       \* what airtable_request returned
    opts,       \* what the fetch_field_options calls returned
    result      \* what the tool returned or raised

vars ==
    <<env, slots, pc, msg, printed, state, op, args, step, sent, received, data, opts,
      result>>

NoMessage == [method |-> "", headers |-> <<>>, hasContext |-> FALSE]
NoStep == [t |-> "none"]

Init ==
    /\ env \in Envs
    /\ slots = {1}
    /\ pc = [c \in CallIds |-> "idle"]
    /\ msg = [c \in CallIds |-> NoMessage]
    /\ printed = [c \in CallIds |-> <<>>]
    /\ state = [c \in CallIds |-> None]
    /\ op = [c \in CallIds |-> ""]
    /\ args = [c \in CallIds |-> NoArgs]
    /\ step = [c \in CallIds |-> NoStep]
    /\ sent = [c \in CallIds |-> <<>>]
    /\ received = [c \in CallIds |-> <<>>]
    /\ data = [c \in CallIds |-> None]
    /\ opts = [c \in CallIds |-> <<>>]
    /\ result = [c \in CallIds |-> None]

\* Runs a tool from a step up to its next HTTP request or its end: the
\* control state, the requests issued, and the values held on the way.
RECURSIVE Run(_, _, _, _, _, _, _)
Run(e, o, a, st, rq, d, os) ==
    CASE st.t \in {"return", "raise"} ->
           [pc |-> "done", step |-> st, sent |-> rq, data |-> d, opts |-> os,
            result |-> Some(st)]
      [] st.t = "request" ->
           LET r == airtable_request_start(st.token, e.base, st.table_id, st.method,
                                           st.endpoint, st.params, st.json_data)
           IN  IF r.send
               THEN [pc |-> "request", step |-> st, sent |-> Append(rq, r.req), data |-> d,
                     opts |-> os, result |-> None]
               ELSE Run(e, o, a, ToolAfterData(o, a, st, r.value), rq, Some(r.value), os)
      [] st.t = "fetch" ->
           IF Len(os) = Len(st.fields)
           THEN Run(e, o, a, ToolFinal(o, a, IF IsNone(d) THEN JNull ELSE Val(d), os), rq, d, os)
           ELSE LET f == fetch_field_options_start(st.token, e.base, st.table_id)
                IN  IF f.send
                    THEN [pc |-> "options", step |-> st, sent |-> Append(rq, f.req),
                          data |-> d, opts |-> os, result |-> None]
                    ELSE Run(e, o, a, st, rq, d, Append(os, f.value))

\* The call's variables after a run.
Becomes(c, r) ==
    /\ pc' = [pc EXCEPT ![c] = r.pc]
    /\ step' = [step EXCEPT ![c] = r.step]
    /\ sent' = [sent EXCEPT ![c] = r.sent]
    /\ data' = [data EXCEPT ![c] = r.data]
    /\ opts' = [opts EXCEPT ![c] = r.opts]
    /\ result' = [result EXCEPT ![c] = r.result]

\* ------------------------------------------------------------- actions
\* A message arrives and is handed to the middleware.
Receive(c) ==
    /\ c \in slots
    /\ pc[c] = "idle"
    /\ \E m \in Messages : msg' = [msg EXCEPT ![c] = m]
    /\ pc' = [pc EXCEPT ![c] = "on_message"]
    /\ UNCHANGED <<env, slots, printed, state, op, args, step, sent, received, data, opts,
                   result>>

\* Mutant: the token is kept in one place for the whole process.
OnMessage_shared(c) ==
    /\ c \in slots
    /\ pc[c] = "on_message"
    /\ printed' = [printed EXCEPT ![c] = PrintedLines(msg[c])]
    /\ state' = [x \in CallIds |-> ExtractToken(msg[c])]
    /\ pc' = [pc EXCEPT ![c] = IF msg[c].method = "tools/call" THEN "tool" ELSE "done"]
    /\ UNCHANGED <<env, slots, msg, op, args, step, sent, received, data, opts, result>>

\* server.py lines 18-32: print the headers, store the token, call_next.
OnMessage(c) ==
    /\ c \in slots
    /\ pc[c] = "on_message"
    /\ printed' = [printed EXCEPT ![c] = PrintedLines(msg[c])]
    /\ state' = [state EXCEPT ![c] = ExtractToken(msg[c])]
    /\ pc' = [pc EXCEPT ![c] = IF msg[c].method = "tools/call" THEN "tool" ELSE "done"]
    /\ UNCHANGED <<env, slots, msg, op, args, step, sent, received, data, opts, result>>

\* The tool body runs up to its first HTTP request, or to its return.
ToolStart(c) ==
    /\ c \in slots
    /\ pc[c] = "tool"
    /\ \E o \in Tools : \E a \in ArgsFor(o) :
          /\ op' = [op EXCEPT ![c] = o]
          /\ args' = [args EXCEPT ![c] = a]
          /\ Becomes(c, Run(env, o, a, ToolStartStep(o, state[c], env, a), <<>>, None, <<>>))
    /\ UNCHANGED <<env, slots, msg, printed, state, received>>

\* The answer to the tool's airtable_request arrives; the tool runs on.
PrimaryResponse(c) ==
    /\ c \in slots
    /\ pc[c] = "request"
    /\ \E resp \in PrimaryResponses(step[c]) :
          LET out == airtable_request_finish(resp)
          IN  /\ received' = [received EXCEPT ![c] = Append(@, resp)]
              /\ IF out.t = "raise"
                 THEN Becomes(c, Run(env, op[c], args[c], Raise(out.exc), sent[c], None, <<>>))
                 ELSE Becomes(c, Run(env, op[c], args[c],
                                     ToolAfterData(op[c], args[c], step[c], out.v),
                                     sent[c], Some(out.v), <<>>))
    /\ UNCHANGED <<env, slots, msg, printed, state, op, args>>

\* The answer to a fetch_field_options request arrives; the tool runs on.
OptionsResponse(c) ==
    /\ c \in slots
    /\ pc[c] = "options"
    /\ \E resp \in MetaResponses :
          LET names == fetch_field_options_finish(resp, Val(step[c].table_id),
                                                  step[c].fields[Len(opts[c]) + 1])
          IN  /\ received' = [received EXCEPT ![c] = Append(@, resp)]
              /\ Becomes(c, Run(env, op[c], args[c], step[c], sent[c], data[c],
                                Append(opts[c], names)))
    /\ UNCHANGED <<env, slots, msg, printed, state, op, args>>

\* The call is over; the server is ready for the next message.
Finish(c) ==
    /\ c \in slots
    /\ pc[c] = "done"
    /\ pc' = [pc EXCEPT ![c] = "idle"]
    /\ msg' = [msg EXCEPT ![c] = NoMessage]
    /\ printed' = [printed EXCEPT ![c] = <<>>]
    /\ state' = [state EXCEPT ![c] = None]
    /\ op' = [op EXCEPT ![c] = ""]
    /\ args' = [args EXCEPT ![c] = NoArgs]
    /\ step' = [step EXCEPT ![c] = NoStep]
    /\ sent' = [sent EXCEPT ![c] = <<>>]
    /\ received' = [received EXCEPT ![c] = <<>>]
    /\ data' = [data EXCEPT ![c] = None]
    /\ opts' = [opts EXCEPT ![c] = <<>>]
    /\ result' = [result EXCEPT ![c] = None]
    /\ UNCHANGED <<env, slots>>

Next ==
    \E c \in CallIds :
        \/ Receive(c)
        \/ OnMessage(c)
        \/ ToolStart(c)
        \/ PrimaryResponse(c)
        \/ OptionsResponse(c)
        \/ Finish(c)

Spec == Init /\ [][Next]_vars

\* ===================================================================
\* Properties
\* ===================================================================
FilterOps == {"get_places", "get_contacts", "get_location_log"}

\* The optional filters of each read operation, in the order its signature
\* declares them (limit of get_location_log caps the result, it filters nothing).
DeclaredFilters(o) ==
    CASE o = "get_places" -> <<"name", "type", "rating", "address">>
      [] o = "get_contacts" -> <<"name", "nickname", "city", "sex", "relationship", "company">>
      [] o = "get_location_log" -> <<"place_id", "status">>

\* The order in which get_contacts composes them.
ComposedFilters(o) ==
    IF o = "get_contacts"
    THEN <<"name", "nickname", "city", "sex", "company", "relationship">>
    ELSE DeclaredFilters(o)

\* A filter is supplied when its argument is given and not empty (not zero).
Supplied(a, k) == IF k \in {"rating", "limit"} THEN TruthyInt(a[k]) ELSE TruthySeq(a[k])
SuppliedOf(o, a, order) == SelectSeq(order, LAMBDA k : Supplied(a, k))

\* The filter list an operation builds.
FiltersOf(o, a) ==
    CASE o = "get_places" -> get_places_filters(a)
      [] o = "get_contacts" -> get_contacts_filters(a)
      [] o = "get_location_log" -> get_location_log_filters(a)

\* The clause a filter gives when it is the only one supplied.
Only(a, k) == [x \in ArgNames |-> IF x = k THEN a[x] ELSE None]
ClauseAlone(o, a, k) == FiltersOf(o, Only(a, k))[1]

\* AND(clause, clause, ...) over the supplied filters taken in an order.
AndOf(o, a, order) ==
    LET ks == SuppliedOf(o, a, order)
    IN  <<"AND(">> \o Join([i \in 1..Len(ks) |-> ClauseAlone(o, a, ks[i])], <<", ">>) \o <<")">>

\* The call has issued its request to the record endpoint.
SentRecords(c) == Len(sent[c]) > 0 /\ sent[c][1].kind = "records"
FilterSent(c) == Get(Val(sent[c][1].params), "filterByFormula", None)

\* C1 (as stated): with two or more filters supplied, filterByFormula is
\* AND(...) of their clauses in the order the signature declares the parameters.
C1_DeclaredOrder ==
    \A c \in CallIds :
        (op[c] \in FilterOps /\ SentRecords(c)
         /\ Len(SuppliedOf(op[c], args[c], DeclaredFilters(op[c]))) >= 2)
        => FilterSent(c) = Some(AndOf(op[c], args[c], DeclaredFilters(op[c])))

\* C1 (amended): with two or more filters supplied, filterByFormula is
\* AND(...) of their clauses in declaration order for get_places and
\* get_location_log, and in the order name, nickname, city, sex, company,
\* relationship for get_contacts.
C1_ComposedOrder ==
    \A c \in CallIds :
        (op[c] \in FilterOps /\ SentRecords(c)
         /\ Len(SuppliedOf(op[c], args[c], ComposedFilters(op[c]))) >= 2)
        => FilterSent(c) = Some(AndOf(op[c], args[c], ComposedFilters(op[c])))

\* A get_contacts request went out with both relationship and company supplied.
C1_Witness ==
    \E c \in CallIds :
        /\ op[c] = "get_contacts" /\ SentRecords(c)
        /\ Supplied(args[c], "relationship") /\ Supplied(args[c], "company")
        /\ Supplied(args[c], "name")
        /\ FilterSent(c)
             = Some(<<"AND(">> \o ClauseAlone("get_contacts", args[c], "name") \o <<", ">>
                    \o ClauseAlone("get_contacts", args[c], "company") \o <<", ">>
                    \o ClauseAlone("get_contacts", args[c], "relationship") \o <<")">>)

\* The clause the specification gives for one supplied filter.
ExpectedTypeClause(type) ==
    IF Len(type) = 1
    THEN <<"LOWER({type}) = LOWER('">> \o type[1] \o <<"')">>
    ELSE <<"OR(">>
         \o Join([i \in 1..Len(type) |->
                     <<"LOWER({type}) = LOWER('">> \o type[i] \o <<"')">>], <<", ">>)
         \o <<")">>
ExpectedRelationshipClause(rel) ==
    IF Len(rel) = 1
    THEN <<"FIND('">> \o rel[1] \o <<"', ARRAYJOIN({relationship}, ','))">>
    ELSE <<"OR(">>
         \o Join([i \in 1..Len(rel) |->
                     <<"FIND('">> \o rel[i] \o <<"', ARRAYJOIN({relationship}, ','))">>],
                 <<", ">>)
         \o <<")">>
ExpectedClause(o, a, k) ==
    CASE k = "name" -> <<"FIND(LOWER('">> \o Val(a.name) \o <<"'), LOWER({name}))">>
      [] k = "nickname" -> <<"FIND(LOWER('">> \o Val(a.nickname) \o <<"'), LOWER({nickname}))">>
      [] k = "city" -> <<"FIND(LOWER('">> \o Val(a.city) \o <<"'), LOWER({city}))">>
      [] k = "company" -> <<"FIND(LOWER('">> \o Val(a.company) \o <<"'), LOWER({company}))">>
      [] k = "address" -> <<"FIND(LOWER('">> \o Val(a.address) \o <<"'), LOWER({address}))">>
      [] k = "type" -> ExpectedTypeClause(Val(a.type))
      [] k = "rating" -> <<"{rating} >= ">> \o IntToStr(Val(a.rating))
      [] k = "sex" -> <<"LOWER({sex}) = '">> \o Val(a.sex) \o <<"'">>
      [] k = "relationship" -> ExpectedRelationshipClause(Val(a.relationship))
      [] k = "place_id" -> <<"FIND('">> \o Val(a.place_id) \o <<"', ARRAYJOIN({place}, ','))">>
      [] k = "status" -> <<"{status} = '">> \o Val(a.status) \o <<"'">>

\* C2: a read operation that composes a filter sends no filterByFormula key
\* when no filter is supplied, and sends the one clause, without an AND(
\* wrapper, when exactly one is supplied.  (Supplied: given and not empty, as
\* the tools document it: "leave empty" for no filter.)
C2_ZeroOrOneFilter ==
    \A c \in CallIds :
        (op[c] \in FilterOps /\ SentRecords(c))
        => LET ks == SuppliedOf(op[c], args[c], DeclaredFilters(op[c]))
               params == Val(sent[c][1].params)
           IN  /\ Len(ks) = 0 => ~HasKey(params, "filterByFormula")
               /\ Len(ks) = 1 =>
                     /\ HasKey(params, "filterByFormula")
                     /\ FilterSent(c) = Some(ExpectedClause(op[c], args[c], ks[1]))
                     /\ Val(FilterSent(c))[1] /= "AND("

\* A get_contacts request went out with only the city filter supplied, and a
\* get_places request with none.
C2_Witness ==
    \E c \in CallIds :
        /\ op[c] = "get_contacts" /\ SentRecords(c)
        /\ SuppliedOf(op[c], args[c], DeclaredFilters(op[c])) = <<"city">>
        /\ ~IsNone(args[c].name)
        /\ sent[c][1].params
             = Some(<< <<"filterByFormula",
                         Some(<<"FIND(LOWER('", "T", "okyo", "'), LOWER({city}))">>)>> >>)

\* C3: in get_places a type filter of n >= 2 values gives the clause
\* OR(c1, ..., cn), ci being LOWER({type}) = LOWER('<value i>') in list order,
\* and a type filter of one value gives that one clause without OR(.  The
\* clause is the whole filterByFormula when type is the only filter, and one
\* of the AND(...) arguments otherwise.
IsPartOf(part, whole) ==
    \E i \in 1..Len(whole) :
        i + Len(part) - 1 <= Len(whole) /\ SubSeq(whole, i, i + Len(part) - 1) = part
C3_TypeClause ==
    \A c \in CallIds :
        (op[c] = "get_places" /\ SentRecords(c) /\ Supplied(args[c], "type"))
        => LET type == Val(args[c].type)
               f == Val(FilterSent(c))
               n == Len(SuppliedOf(op[c], args[c], DeclaredFilters(op[c])))
               expected == ExpectedTypeClause(type)
           IN  /\ IsPartOf(expected, f)
               /\ n = 1 => f = expected
               /\ Len(type) = 1 => ~IsPartOf(<<"OR(">>, f)

\* get_places(type=['cafe', 'coworking']) sent the filter of the example.
C3_Witness ==
    \E c \in CallIds :
        /\ op[c] = "get_places" /\ SentRecords(c)
        /\ args[c].type = Some(<< <<"cafe">>, <<"coworking">> >>)
        /\ FilterSent(c)
             = Some(<<"OR(", "LOWER({type}) = LOWER('", "cafe", "')", ", ",
                      "LOWER({type}) = LOWER('", "coworking", "')", ")">>)

\* ------------------------------------------------ preconditions of a call
UpdateOps == {"update_location_log", "update_place", "update_contact"}
OptionalFields(o) ==
    CASE o = "update_location_log" -> {"place_id", "transit"}
      [] o = "update_place" -> {"name", "address", "type", "rating", "notes"}
      [] o = "update_contact" -> {"name"} \cup ContactOptionalNames
NoFieldGiven(o, a) == \A k \in OptionalFields(o) : IsNone(a[k])

\* The environment variable that names the operation's table, if any.
TableVar(o, a) ==
    CASE o = "get_messages" -> Some("messages")
      [] o \in {"get_location_log", "update_location_log"} -> Some("logs")
      [] o \in {"create_place", "update_place", "get_places"} -> Some("places")
      [] o \in {"get_contacts", "create_contact", "update_contact", "get_birthdays"} ->
           Some("contacts")
      [] o \in {"get_parameter_options", "delete_entry"} ->
           IF Val(a.source) = <<"p", "lace">> THEN Some("places")
           ELSE IF Val(a.source) = <<"c", "ontact">> THEN Some("contacts")
           ELSE None
CredentialPresent(c) == TruthySeq(state[c])
TableConfigured(c) ==
    /\ ~IsNone(TableVar(op[c], args[c]))
    /\ TruthySeq(env[Val(TableVar(op[c], args[c]))])
BaseConfigured == TruthySeq(env.base)

Returned(c) == pc[c] = "done" /\ ~IsNone(result[c]) /\ Val(result[c]).t = "return"
Succeeded(c) == Returned(c) /\ ~HasKey(Val(result[c]).d, "error")

\* C4: an update called with every optional field omitted issues no HTTP
\* request, whatever the configuration; with a credential and the table
\* configured it returns the error saying that no fields were provided.
NoFieldsMessage(o) ==
    IF o = "update_location_log"
    THEN <<"No fields provided to update. Provide at least place_id or transit.">>
    ELSE <<"No fields provided to update.">>
C4_NoFieldsNoRequest ==
    \A c \in CallIds :
        (op[c] \in UpdateOps /\ NoFieldGiven(op[c], args[c]))
        => /\ sent[c] = <<>>
           /\ pc[c] = "done"
           /\ (CredentialPresent(c) /\ TableConfigured(c))
                => result[c] = Some(Return(<< <<"error", NoFieldsMessage(op[c])>> >>))

\* update_contact(contact_id='rec123') returned the error of the example.
C4_Witness ==
    \E c \in CallIds :
        /\ op[c] = "update_contact" /\ args[c].contact_id = Some(<<"rec123">>)
        /\ NoFieldGiven(op[c], args[c])
        /\ CredentialPresent(c) /\ TableConfigured(c) /\ BaseConfigured
        /\ pc[c] = "done" /\ sent[c] = <<>>
        /\ Val(result[c]).d = << <<"error", <<"No fields provided to update.">>>> >>

\* Requests of a kind among those a call issued.
CountKind(c, kind) == Cardinality({ i \in 1..Len(sent[c]) : sent[c][i].kind = kind })
FetchCount(o) ==
    CASE o \in {"get_places", "create_place", "update_place", "get_parameter_options"} -> 1
      [] o \in {"get_contacts", "create_contact", "update_contact"} -> 2
      [] OTHER -> 0

\* C5 (as stated): a finished tool call whose credential and configuration
\* preconditions hold has issued exactly one HTTP request.
C5_ExactlyOneRequest ==
    \A c \in CallIds :
        (pc[c] = "done" /\ op[c] \in Tools
         /\ CredentialPresent(c) /\ TableConfigured(c) /\ BaseConfigured)
        => Len(sent[c]) = 1

\* C5 (amended): a tool call issues at most one request to the record
\* endpoint, and it is the first; the others are schema-discovery requests,
\* issued one at a time and only by get_parameter_options or after the record
\* request was answered with success.  When the preconditions hold a finished
\* call has issued exactly one record request (none for get_parameter_options
\* and for an update without fields), followed, when it ends in success, by
\* one schema-discovery request per option list it returns.
C5_RequestsPerCall ==
    \A c \in CallIds :
        op[c] \in Tools
        => /\ Len(received[c]) <= Len(sent[c])
           /\ Len(sent[c]) <= Len(received[c]) + 1
           /\ pc[c] = "done" => Len(sent[c]) = Len(received[c])
           /\ \A i \in 1..Len(sent[c]) : sent[c][i].kind = "records" => i = 1
           /\ CountKind(c, "meta") > 0
                => \/ op[c] = "get_parameter_options"
                   \/ (/\ sent[c][1].kind = "records"
                       /\ received[c][1].kind = "http"
                       /\ received[c][1].ok)
           /\ (pc[c] = "done" /\ CredentialPresent(c) /\ TableConfigured(c) /\ BaseConfigured)
                => /\ CountKind(c, "records")
                        = IF \/ op[c] = "get_parameter_options"
                             \/ (op[c] \in UpdateOps /\ NoFieldGiven(op[c], args[c]))
                          THEN 0 ELSE 1
                   /\ CountKind(c, "meta") = IF Succeeded(c) THEN FetchCount(op[c]) ELSE 0

\* A get_contacts call ended in success after three requests.
C5_Witness ==
    \E c \in CallIds :
        /\ op[c] = "get_contacts" /\ Succeeded(c)
        /\ CredentialPresent(c) /\ TableConfigured(c) /\ BaseConfigured
        /\ Len(sent[c]) = 3
        /\ sent[c][1].kind = "records" /\ sent[c][2].kind = "meta" /\ sent[c][3].kind = "meta"

\* C6 (as stated): no line the server printed contains the value of the
\* call's bearer credential.
C6_TokenNeverPrinted ==
    \A c \in CallIds :
        CredentialPresent(c)
        => \A i \in 1..Len(printed[c]) : ~IsPartOf(Val(state[c]), printed[c][i])

\* C7: when the store answers the record request with a non-2xx status,
\* airtable_request returns (it does not raise) the error carrying the
\* status code and, as detail, the body parsed as JSON or else its raw text;
\* no second request follows.
StatusText(n) ==
    CASE n = 404 -> <<"4", "0", "4">>
      [] n = 500 -> <<"5", "0", "0">>
C7_ErrorStatus ==
    \A c \in CallIds :
        (SentRecords(c) /\ Len(received[c]) >= 1
         /\ received[c][1].kind = "http" /\ ~received[c][1].ok)
        => LET r == received[c][1]
           IN  /\ data[c]
                    = Some(JDict(<< <<"error",
                                      <<"Request failed with status ">> \o StatusText(r.status)>>,
                                    <<"detail",
                                      IF IsNone(r.json) THEN JStr(r.text) ELSE Val(r.json)>> >>))
               /\ Len(sent[c]) = 1
               /\ Returned(c)

\* A 404 with a body that is not JSON was answered to a record request.
C7_Witness ==
    \E c \in CallIds :
        /\ SentRecords(c) /\ Len(received[c]) = 1
        /\ received[c][1] = Http(FALSE, 404, None, <<"Bad Gateway">>, TRUE)
        /\ Val(data[c]).d
             = << <<"error", <<"Request failed with status ", "4", "0", "4">>>>,
                  <<"detail", JStr(<<"Bad Gateway">>)>> >>

\* C8: airtable_request called with a credential, but with the base id or
\* the table id missing, returns the configuration error and sends nothing:
\* for every such input of the function, and in every tool call that reaches
\* it with the base id unset.
CalledDispatcher(c) ==
    op[c] \in Tools /\ ToolStartStep(op[c], state[c], env, args[c]).t = "request"
IncompleteConfig == JDict(<< <<"error", <<"Server configuration is incomplete.">>>> >>)
C8_ConfigurationError ==
    /\ \A b \in {None, Some(<<>>), Some(<<"appBase">>)},
          t \in {None, Some(<<>>), Some(<<"tblPlaces">>)} :
            (~TruthySeq(b) \/ ~TruthySeq(t))
            => airtable_request_start(Some(<<"tokA">>), b, t, "GET", <<>>, None, None)
                 = [send |-> FALSE, value |-> IncompleteConfig]
    /\ \A c \in CallIds :
          (CalledDispatcher(c) /\ ~BaseConfigured)
          => /\ sent[c] = <<>>
             /\ data[c] = Some(IncompleteConfig)
             /\ Returned(c)
             /\ Get(Val(result[c]).d, "error", <<>>) = <<"Server configuration is incomplete.">>

\* A tool reached airtable_request with a credential and its table, the base
\* id being unset.
C8_Witness ==
    \E c \in CallIds :
        /\ op[c] = "get_places" /\ CalledDispatcher(c)
        /\ CredentialPresent(c) /\ TableConfigured(c) /\ ~BaseConfigured
        /\ sent[c] = <<>>
        /\ data[c] = Some(IncompleteConfig)

\* A backing-store call of the operation failed.
Failure(resp) ==
    \/ resp.kind = "transport"
    \/ (resp.kind = "http" /\ (~resp.ok \/ IsNone(resp.json)))
SomeCallFailed(c) == \E i \in 1..Len(received[c]) : Failure(received[c][i])

\* C9 (as stated): a finished tool call has returned a result, no exception
\* has escaped; if a backing-store call failed the result has an error key;
\* and an error of the dispatcher is returned with the dispatcher's message.
C9_ErrorsAreReturned ==
    \A c \in CallIds :
        (pc[c] = "done" /\ op[c] \in Tools)
        => /\ Returned(c)
           /\ SomeCallFailed(c) => HasKey(Val(result[c]).d, "error")
           /\ (~IsNone(data[c]) /\ Val(data[c]).j = "dict" /\ HasKey(Val(data[c]).d, "error"))
                => Get(Val(result[c]).d, "error", <<>>) = Get(Val(data[c]).d, "error", <<>>)

\* C10: delete_entry for source 'place' or 'contact' sends one DELETE to
\* <base>/<table of the source>/<entry_id> and, on success, returns
\* '<Source> deleted successfully.' with deleted_id the entry_id passed in.
SourceTable(source) ==
    IF source = <<"p", "lace">> THEN <<"tblPlaces">> ELSE <<"tblContacts">>
SourceTitle(source) ==
    IF source = <<"p", "lace">> THEN <<"P", "lace">> ELSE <<"C", "ontact">>
C10_DeleteEntry ==
    \A c \in CallIds :
        (op[c] = "delete_entry" /\ Val(args[c].source) \in {<<"p", "lace">>, <<"c", "ontact">>})
        => /\ Len(sent[c]) <= 1
           /\ Len(sent[c]) = 1
                => /\ sent[c][1].method = "DELETE"
                   /\ sent[c][1].url
                        = <<"https://api.airtable.com/v0/", "appBase", "/">>
                          \o SourceTable(Val(args[c].source)) \o <<"/">> \o Val(args[c].entry_id)
           /\ Succeeded(c)
                => Val(result[c]).d
                     = << <<"message",
                            SourceTitle(Val(args[c].source)) \o <<" deleted successfully.">>>>,
                          <<"deleted_id", Val(args[c].entry_id)>> >>

\* delete_entry(source='place', entry_id='recABC') returned the result of the
\* example.
C10_Witness ==
    \E c \in CallIds :
        /\ op[c] = "delete_entry" /\ Succeeded(c)
        /\ args[c].source = Some(<<"p", "lace">>) /\ args[c].entry_id = Some(<<"recABC">>)
        /\ sent[c][1].url
             = <<"https://api.airtable.com/v0/", "appBase", "/", "tblPlaces", "/", "recABC">>
        /\ Val(result[c]).d
             = << <<"message", <<"P", "lace", " deleted successfully.">>>>,
                  <<"deleted_id", <<"recABC">>>> >>

\* ------------------------------------------------------ list operations
ListOps == {"get_places", "get_contacts", "get_location_log", "get_messages"}
ListKey(o) ==
    CASE o = "get_places" -> "places"
      [] o = "get_contacts" -> "contacts"
      [] o = "get_location_log" -> "logs"
      [] o = "get_messages" -> "messages"
\* The record request was answered with a 2xx status and a JSON object.
PrimarySucceeded(c) ==
    /\ SentRecords(c) /\ Len(received[c]) >= 1
    /\ received[c][1].kind = "http" /\ received[c][1].ok
    /\ ~IsNone(received[c][1].json) /\ Val(received[c][1].json).j = "dict"
ResponseBody(c) == Val(received[c][1].json).d
ResponseRecords(c) ==
    IF \E i \in 1..Len(ResponseBody(c)) : ResponseBody(c)[i][1] = "records"
    THEN LET i == CHOOSE i \in 1..Len(ResponseBody(c)) : ResponseBody(c)[i][1] = "records"
         IN  ResponseBody(c)[i][2]
    ELSE <<>>

\* C11: a list operation whose record request the store answered with
\* success returns the response's records unchanged and in order, with count
\* equal to their number (an empty list and 0 when the response has no
\* records); get_places(type=['cafe'], rating=4) sends the filter
\* AND(LOWER({type}) = LOWER('cafe'), {rating} >= 4).
C11_RecordsPassedThrough ==
    \A c \in CallIds :
        /\ (op[c] \in ListOps /\ PrimarySucceeded(c) /\ pc[c] = "done")
           => /\ Succeeded(c)
              /\ HasKey(Val(result[c]).d, ListKey(op[c]))
              /\ HasKey(Val(result[c]).d, "count")
              /\ Get(Val(result[c]).d, ListKey(op[c]), None) = ResponseRecords(c)
              /\ Get(Val(result[c]).d, "count", None) = Len(ResponseRecords(c))
        /\ (/\ op[c] = "get_places" /\ SentRecords(c)
            /\ args[c].type = Some(<< <<"cafe">> >>) /\ args[c].rating = Some(4)
            /\ IsNone(args[c].name) /\ IsNone(args[c].address))
           => FilterSent(c)
                = Some(<<"AND(", "LOWER({type}) = LOWER('", "cafe", "')", ", ",
                         "{rating} >= ", "4", ")">>)

\* get_places(type=['cafe'], rating=4) returned the two records of the
\* response in the response's order, with count 2.
C11_Witness ==
    \E c \in CallIds :
        /\ op[c] = "get_places" /\ PrimarySucceeded(c) /\ Succeeded(c)
        /\ args[c].type = Some(<< <<"cafe">> >>) /\ args[c].rating = Some(4)
        /\ IsNone(args[c].name) /\ IsNone(args[c].address)
        /\ ResponseRecords(c) = <<Rec(<<"rec2">>, None), Rec(<<"rec1">>, None)>>
        /\ Get(Val(result[c]).d, "places", None)
             = <<Rec(<<"rec2">>, None), Rec(<<"rec1">>, None)>>
        /\ Get(Val(result[c]).d, "count", None) = 2

\* ------------------------------------------------------------ field maps
\* The lower-case form of the values the normalized fields are given.
Lowered(s) ==
    CASE s = <<"T", "okyo">> -> <<"t", "okyo">>
      [] s = <<"M", "an">> -> <<"m", "an">>
      [] s = <<"F", "riend">> -> <<"f", "riend">>
      [] s = <<"B", "ar">> -> <<"b", "ar">>
      [] s = <<"cafe">> -> <<"cafe">>
ExpectedField(k, v) ==
    CASE k \in {"type", "relationship"} -> FList([i \in 1..Len(v) |-> Lowered(v[i])])
      [] k \in {"city", "sex"} -> FStr(Lowered(v))
      [] k = "rating" -> FInt(v)
      [] OTHER -> FStr(v)
FieldsSent(c) == Get(Val(sent[c][1].json), "fields", <<>>)

\* C12: the field map update_place and update_contact send has one entry for
\* each parameter supplied with a non-null value and no other entry; place
\* type and contact city, sex and relationship are lower-cased, every other
\* value is sent as given.
C12_FieldMap ==
    \A c \in CallIds :
        (op[c] \in {"update_place", "update_contact"} /\ SentRecords(c))
        => LET fields == FieldsSent(c)
               given == { k \in OptionalFields(op[c]) : ~IsNone(args[c][k]) }
           IN  /\ sent[c][1].method = "PATCH"
               /\ { fields[i][1] : i \in 1..Len(fields) } = given
               /\ Len(fields) = Cardinality(given)
               /\ \A i \in 1..Len(fields) :
                     fields[i][2] = ExpectedField(fields[i][1], Val(args[c][fields[i][1]]))

\* update_contact(city='Tokyo', sex='Man') sent the two fields, lower-cased.
C12_Witness ==
    \E c \in CallIds :
        /\ op[c] = "update_contact" /\ SentRecords(c)
        /\ args[c].city = Some(<<"T", "okyo">>) /\ args[c].sex = Some(<<"M", "an">>)
        /\ FieldsSent(c) = << <<"city", FStr(<<"t", "okyo">>)>>,
                              <<"sex", FStr(<<"m", "an">>)>> >>

\* C13 (as stated): in every filterByFormula sent, a single quote that comes
\* from a parameter value is escaped (preceded by a backslash); a call whose
\* value is rejected sends no request.  The quotes that delimit the literals
\* belong to the fragments of the formula's template.
C13_QuotesEscaped ==
    \A c \in CallIds :
        (op[c] \in FilterOps /\ SentRecords(c) /\ ~IsNone(FilterSent(c)))
        => LET f == Val(FilterSent(c))
           IN  \A i \in 1..Len(f) : f[i] = "'" => (i > 1 /\ f[i - 1] = "\\")

\* ------------------------------------------------- order of the checks
AuthenticationError ==
    << <<"error", <<"No authentication token provided in request header.">>>> >>
\* The error of an operation whose table cannot be resolved.
ConfigurationError(o, a) ==
    CASE o = "get_messages" -> <<"Messages table is not configured.">>
      [] o \in {"get_location_log", "update_location_log"} ->
           <<"Location log is not configured.">>
      [] o \in {"create_place", "update_place", "get_places"} ->
           <<"Places table is not configured.">>
      [] o \in {"get_contacts", "create_contact", "update_contact", "get_birthdays"} ->
           <<"Contacts table is not configured.">>
      [] o \in {"get_parameter_options", "delete_entry"} ->
           IF IsNone(TableVar(o, a))
           THEN <<"Unknown source '">> \o Val(a.source) \o <<"'. Use 'place' or 'contact'.">>
           ELSE <<"Table for '">> \o Val(a.source) \o <<"' is not configured.">>

Buckets == {"today", "this_week", "this_month"}
BucketName(k) ==
    CASE k = "today" -> <<"today">>
      [] k = "this_week" -> <<"this_week">>
      [] k = "this_month" -> <<"this_month">>
\* The value of a record's birthday_alert field, <<>> when it has none.
AlertOf(r) ==
    LET fs == { r[i][2] : i \in { j \in 1..Len(r) : r[j][1] = "fields" } }
        as == UNION { { f[i][2] : i \in { j \in 1..Len(f) : f[j][1] = "birthday_alert" } } :
                      f \in fs }
    IN  IF as = {} THEN <<>> ELSE CHOOSE x \in as : TRUE
\* The positions of the response's records whose alert is k, and the n-th.
PositionsOf(rs, k) == { i \in 1..Len(rs) : AlertOf(rs[i]) = BucketName(k) }
NthOf(P, n) == CHOOSE i \in P : Cardinality({ x \in P : x <= i }) = n
BucketOf(c, k) == Get(Val(result[c]).d, k, <<>>)

\* C15 (as stated): every record the store returned to get_birthdays appears
\* in exactly one of the buckets today, this_week and this_month.
C15_EveryRecordInOneBucket ==
    \A c \in CallIds :
        (op[c] = "get_birthdays" /\ PrimarySucceeded(c) /\ pc[c] = "done")
        => /\ Succeeded(c)
           /\ \A i \in 1..Len(ResponseRecords(c)) :
                 Cardinality({ k \in Buckets :
                                 \E j \in 1..Len(BucketOf(c, k)) :
                                    BucketOf(c, k)[j] = ResponseRecords(c)[i] }) = 1

\* C15 (amended): the result of get_birthdays has the three buckets; each
\* holds exactly the returned records whose birthday_alert is the bucket's
\* name, in their original relative order, so that no record is in two
\* buckets; a record with any other or no birthday_alert is in no bucket.
C15_Buckets ==
    \A c \in CallIds :
        (op[c] = "get_birthdays" /\ PrimarySucceeded(c) /\ pc[c] = "done")
        => /\ Succeeded(c)
           /\ { Val(result[c]).d[i][1] : i \in 1..Len(Val(result[c]).d) } = Buckets
           /\ \A k \in Buckets :
                 LET P == PositionsOf(ResponseRecords(c), k)
                 IN  /\ Len(BucketOf(c, k)) = Cardinality(P)
                     /\ \A n \in 1..Cardinality(P) :
                           BucketOf(c, k)[n] = ResponseRecords(c)[NthOf(P, n)]

\* Two records due today were returned in the order of the response.
C15_Witness ==
    \E c \in CallIds :
        /\ op[c] = "get_birthdays" /\ PrimarySucceeded(c) /\ Succeeded(c)
        /\ Len(ResponseRecords(c)) = 2
        /\ ResponseRecords(c)
             = <<Rec(<<"recT2">>, Some(<<"today">>)), Rec(<<"recT">>, Some(<<"today">>))>>
        /\ BucketOf(c, "today") = ResponseRecords(c)
        /\ BucketOf(c, "this_week") = <<>> /\ BucketOf(c, "this_month") = <<>>

\* ------------------------------------------------- concurrent handling
\* Two calls are handled at once, in any interleaving of their steps: the
\* middleware, the tool body up to a request, each answer.  The messages
\* carry different credentials or none; the tools are one that sends a record
\* request, one that sends a schema-discovery request and one that sends
\* both.
ConcurrentMessages ==
    { [method |-> "tools/call", headers |-> h, hasContext |-> TRUE] :
        h \in { << <<"user-agent", <<"poke">>>> >>,
                << <<"user-agent", <<"poke">>>>, <<"authorization", <<"Bearer ", "tokA">>>> >>,
                << <<"user-agent", <<"poke">>>>, <<"authorization", <<"Bearer ", "tokB">>>> >>,
                << <<"user-agent", <<"poke">>>>,
                   <<"authorization", <<"Bearer ", "tok", "Bearer ", "B">>>> >> } }
ConcurrentTools == {"delete_entry", "get_parameter_options", "create_place"}
ConcurrentArgs(o) ==
    CASE o = "delete_entry" ->
           [NoArgs EXCEPT !.source = Some(<<"p", "lace">>), !.entry_id = Some(<<"recABC">>)]
      [] o = "get_parameter_options" ->
           [NoArgs EXCEPT !.source = Some(<<"p", "lace">>), !.parameter = Some(<<"type">>)]
      [] o = "create_place" ->
           [NoArgs EXCEPT !.name = Some(Plain), !.address = Some(<<"1 Main St">>),
                          !.type = Some(<< <<"cafe">> >>)]

ConcurrentInit ==
    /\ env = EnvWith(TRUE, {})
    /\ slots = CallIds
    /\ pc = [c \in CallIds |-> "idle"]
    /\ msg = [c \in CallIds |-> NoMessage]
    /\ printed = [c \in CallIds |-> <<>>]
    /\ state = [c \in CallIds |-> None]
    /\ op = [c \in CallIds |-> ""]
    /\ args = [c \in CallIds |-> NoArgs]
    /\ step = [c \in CallIds |-> NoStep]
    /\ sent = [c \in CallIds |-> <<>>]
    /\ received = [c \in CallIds |-> <<>>]
    /\ data = [c \in CallIds |-> None]
    /\ opts = [c \in CallIds |-> <<>>]
    /\ result = [c \in CallIds |-> None]

ConcurrentReceive(c) ==
    /\ c \in slots
    /\ pc[c] = "idle"
    /\ \E m \in ConcurrentMessages : msg' = [msg EXCEPT ![c] = m]
    /\ pc' = [pc EXCEPT ![c] = "on_message"]
    /\ UNCHANGED <<env, slots, printed, state, op, args, step, sent, received, data, opts,
                   result>>

ConcurrentToolStart(c) ==
    /\ c \in slots
    /\ pc[c] = "tool"
    /\ \E o \in ConcurrentTools :
          /\ op' = [op EXCEPT ![c] = o]
          /\ args' = [args EXCEPT ![c] = ConcurrentArgs(o)]
          /\ Becomes(c, Run(env, o, ConcurrentArgs(o),
                            ToolStartStep(o, state[c], env, ConcurrentArgs(o)), <<>>, None, <<>>))
    /\ UNCHANGED <<env, slots, msg, printed, state, received>>

ConcurrentNext ==
    \E c \in CallIds :
        \/ ConcurrentReceive(c)
        \/ OnMessage(c)
        \/ ConcurrentToolStart(c)
        \/ PrimaryResponse(c)
        \/ OptionsResponse(c)
        \/ Finish(c)

SpecConcurrent == ConcurrentInit /\ [][ConcurrentNext]_vars

\* The Authorization header of a request.
Authorization(req) == Get(req.headers, "Authorization", <<>>)
Handled(c) == pc[c] \in {"tool", "request", "options", "done"}

\* C16: once the middleware has run for a call, and until the call is over,
\* the credential in the call's context state is the one extracted from the
\* call's own Authorization header (so it is set once and no tool changes
\* it), and every request the call sends, to the record endpoint or to the
\* metadata endpoint, carries that credential, whatever the other call does.
C16_OwnCredential ==
    \A c \in CallIds :
        /\ Handled(c) => state[c] = ExtractToken(msg[c])
        /\ ~Handled(c) => (state[c] = None /\ sent[c] = <<>>)
        /\ \A i \in 1..Len(sent[c]) :
              /\ ~IsNone(ExtractToken(msg[c]))
              /\ Authorization(sent[c][i]) = <<"Bearer ">> \o Val(ExtractToken(msg[c]))

\* Two calls with different credentials each have a request in flight, the
\* second call's middleware having run after the first call's.
C16_Witness ==
    /\ pc[1] \in {"request", "options"} /\ pc[2] \in {"request", "options"}
    /\ Len(sent[1]) = 2 /\ Len(sent[2]) = 1
    /\ Authorization(sent[1][2]) = <<"Bearer ", "tokA">>
    /\ Authorization(sent[2][1]) = <<"Bearer ", "tokB">>

\* ------------------------------------------------------ schema discovery
DiscoveringOps ==
    {"get_places", "get_contacts", "create_place", "update_place", "create_contact",
     "update_contact"}
\* The result keys of the option lists, in the order they are fetched.
OptionKeys(o) ==
    IF o \in {"get_places", "create_place", "update_place"}
    THEN <<"available_types">>
    ELSE <<"available_relationships", "available_cities">>
\* The result key of the record a write returns.
RecordKey(o) == IF o \in {"create_place", "update_place"} THEN "place" ELSE "contact"

\* C17: in the six operations that discover options, a schema-discovery
\* request is sent only after the record request was answered with success
\* (a 2xx status and a JSON body), never after it failed; and once discovery
\* has started the call ends in success with the records (the record) of the
\* response unchanged, a failed schema-discovery request leaving its option
\* list empty.
C17_DiscoveryAfterSuccess ==
    \A c \in CallIds :
        op[c] \in DiscoveringOps
        => /\ CountKind(c, "meta") > 0
              => /\ sent[c][1].kind = "records"
                 /\ Len(received[c]) >= 1 /\ ~Failure(received[c][1])
           /\ (Len(received[c]) >= 1 /\ Failure(received[c][1])) => Len(sent[c]) = 1
           /\ (CountKind(c, "meta") > 0 /\ pc[c] = "done")
              => /\ Succeeded(c)
                 /\ IF op[c] \in ListOps
                    THEN /\ HasKey(Val(result[c]).d, ListKey(op[c]))
                         /\ Get(Val(result[c]).d, ListKey(op[c]), None) = ResponseRecords(c)
                    ELSE Get(Val(result[c]).d, RecordKey(op[c]), None)
                           = Val(received[c][1].json)
                 /\ Len(received[c]) = 1 + Len(OptionKeys(op[c]))
                 /\ \A j \in 1..Len(OptionKeys(op[c])) :
                       /\ sent[c][1 + j].kind = "meta"
                       /\ HasKey(Val(result[c]).d, OptionKeys(op[c])[j])
                       /\ Failure(received[c][1 + j])
                          => Get(Val(result[c]).d, OptionKeys(op[c])[j], None) = <<>>

\* get_places returned the two records of the response and an empty list of
\* types, the schema-discovery request having been refused.
C17_Witness ==
    \E c \in CallIds :
        /\ op[c] = "get_places" /\ PrimarySucceeded(c) /\ Succeeded(c)
        /\ received[c][2] = Http(FALSE, 403, None, <<"Forbidden">>, TRUE)
        /\ Len(ResponseRecords(c)) = 2
        /\ Get(Val(result[c]).d, "places", None) = ResponseRecords(c)
        /\ Val(result[c]).d[3] = <<"available_types", <<>>>>

====
